---- MODULE Spec2Model ----
(***************************************************************************)
(* Workout-Log (src/script.js): a map-click / form / list / localStorage   *)
(* application.  The model is the page as a state machine: the App's       *)
(* private fields, the DOM pieces the handlers read and write, the value   *)
(* under the localStorage key 'workouts', and one action per handler or    *)
(* browser event.                                                          *)
(***************************************************************************)
EXTENDS Integers, Sequences, FiniteSets, TLC

(***************************************************************************)
(* Bounds of the model.                                                    *)
(***************************************************************************)
\* The store holds at most this many workouts (submissions stop there).
MaxWorkouts == 2
\* Date.now() ranges over 0..MaxNow.
MaxNow == 2
\* Largest finite magnitude of the scaled-down number domain (the stand-in
\* for Number.MAX_VALUE); a quotient above it overflows to Infinity.
MaxValue == 100

(***************************************************************************)
(* JavaScript numbers.  A value is a record [c, n, d]:                     *)
(*   c = "fin"   the rational n/d in lowest terms, d > 0                   *)
(*   c = "inf"   +Infinity (n = 1) or -Infinity (n = -1)                   *)
(*   c = "nan"   NaN                                                       *)
(*   c = "null"  null,  c = "undef"  undefined (a property that is absent) *)
(***************************************************************************)
Fin(n, d) == [c |-> "fin", n |-> n, d |-> d]
Zero == Fin(0, 1)
One == Fin(1, 1)
NaN == [c |-> "nan", n |-> 0, d |-> 1]
Infinity == [c |-> "inf", n |-> 1, d |-> 1]
NegInfinity == [c |-> "inf", n |-> -1, d |-> 1]
Null == [c |-> "null", n |-> 0, d |-> 1]
Undefined == [c |-> "undef", n |-> 0, d |-> 1]
\* The smallest positive value: its reciprocal is above MaxValue, as
\* 1 / Number.MIN_VALUE is above Number.MAX_VALUE.
MinValue == Fin(1, 2 * MaxValue)

Abs(i) == IF i < 0 THEN -i ELSE i
Sign(i) == IF i < 0 THEN -1 ELSE 1

RECURSIVE GCD(_, _)
GCD(a, b) == IF b = 0 THEN a ELSE GCD(b, a % b)

\* The number n/d (d > 0) as the nearest value of the domain: lowest terms,
\* overflow to +-Infinity, underflow to 0.
Round(n, d) ==
  IF n = 0 THEN Zero
  ELSE IF Abs(n) > MaxValue * d THEN (IF n > 0 THEN Infinity ELSE NegInfinity)
  ELSE IF Abs(n) * MinValue.d < d THEN Zero
  ELSE LET g == GCD(Abs(n), d) IN Fin(n \div g, d \div g)

\* The / operator on numbers.
Div(a, b) ==
  IF a.c = "nan" \/ b.c = "nan" THEN NaN
  ELSE IF a.c = "inf"
    THEN (IF b.c = "inf" THEN NaN
          ELSE IF a.n * Sign(b.n) > 0 THEN Infinity ELSE NegInfinity)
  ELSE IF b.c = "inf" THEN Zero
  ELSE IF b.n = 0
    THEN (IF a.n = 0 THEN NaN ELSE IF a.n > 0 THEN Infinity ELSE NegInfinity)
  ELSE Round(a.n * b.d * Sign(b.n), a.d * Abs(b.n))

IsFinite(x) == x.c = "fin"
\* x > 0 (false for NaN)
GtZero(x) == (x.c = "fin" /\ x.n > 0) \/ (x.c = "inf" /\ x.n > 0)

\* validInputs(...inputs) and allPositive(...inputs) of _newWorkout
validInputs(inputs) == \A i \in DOMAIN inputs : IsFinite(inputs[i])
allPositive(inputs) == \A i \in DOMAIN inputs : GtZero(inputs[i])

\* The texts a form field can hold in the model, and unary plus on them.
FieldTexts == {"", "abc", "-1", "1", "5e-324", "Infinity"}
ToNumber(text) ==
  CASE text = "" -> Zero
    [] text = "abc" -> NaN
    [] text = "-1" -> Fin(-1, 1)
    [] text = "1" -> One
    [] text = "5e-324" -> MinValue
    [] text = "Infinity" -> Infinity

\* Number.prototype.toFixed(1): the value rounded to one decimal (half up).
toFixed1(x) ==
  IF x.c = "fin"
  THEN LET t == (20 * Abs(x.n) + x.d) \div (2 * x.d)
           g == GCD(t, 10)
       IN Fin(Sign(x.n) * (t \div g), 10 \div g)
  ELSE x

(***************************************************************************)
(* Dates.  The clock counts abstract ticks; a Date is the tick it was made *)
(* at, and a tick is taken to be a calendar day of 31-day months.          *)
(***************************************************************************)
getMonth(t) == (t \div 31) % 12
getDate(t) == (t % 31) + 1
months == << "January", "February", "March", "April", "May", "June", "July",
             "August", "September", "October", "November", "December" >>

\* (Date.now() + '').slice(-10): the timestamp's low digits.  The clock range
\* spans exactly one wrap of them: ticks 0 and MaxNow give the same id.
IdOf(t) == t % MaxNow

\* `${type[0].toUpperCase()}${type.slice(1)}`
Capitalize(type) ==
  CASE type = "running" -> "Running"
    [] type = "cycling" -> "Cycling"
    [] OTHER -> type

\* Workout._setDescription: "<Type> on <Month> <day>", from this.date
setDescription(type, t) ==
  [kind |-> Capitalize(type), month |-> months[getMonth(t) + 1], day |-> getDate(t)]

(***************************************************************************)
(* Workouts.  One record shape for both classes; a property the class does *)
(* not have is Undefined.  date.iso is FALSE for a Date object and TRUE    *)
(* for the ISO string JSON leaves in its place.                            *)
(***************************************************************************)
NoCoords == << >>
Locations == { <<45, 15>>, <<46, 16>> }

\* Running.calculatePace
calculatePace(distance, duration) == Div(duration, distance)
\* Cycling.calculateSpeed
calculateSpeed(distance, duration) == Div(Div(distance, duration), Fin(60, 1))

\* new Running(coords, distance, duration, cadence) at tick t
NewRunning(coords, distance, duration, cadence, t) ==
  [ type |-> "running", id |-> IdOf(t), date |-> [iso |-> FALSE, t |-> t],
    coords |-> coords, distance |-> distance, duration |-> duration,
    cadence |-> cadence, elevation |-> Undefined,
    pace |-> calculatePace(distance, duration), speed |-> Undefined,
    description |-> setDescription("running", t) ]

\* new Cycling(coords, distance, duration, elevation) at tick t
NewCycling(coords, distance, duration, elevation, t) ==
  [ type |-> "cycling", id |-> IdOf(t), date |-> [iso |-> FALSE, t |-> t],
    coords |-> coords, distance |-> distance, duration |-> duration,
    cadence |-> Undefined, elevation |-> elevation,
    pace |-> Undefined, speed |-> calculateSpeed(distance, duration),
    description |-> setDescription("cycling", t) ]

\* The array element null (not an object).
NullEntry ==
  [ type |-> "null", id |-> 0, date |-> [iso |-> TRUE, t |-> 0],
    coords |-> NoCoords, distance |-> Null, duration |-> Null,
    cadence |-> Null, elevation |-> Null, pace |-> Null, speed |-> Null,
    description |-> [kind |-> "", month |-> "", day |-> 0] ]

(***************************************************************************)
(* JSON.  The stored string is modelled by the value it denotes:           *)
(*   t = "absent"    no 'workouts' key (getItem gives null)                *)
(*   t = "garbage"   text that is not JSON                                 *)
(*   t = "falsy"     JSON null, 0, false or ""                             *)
(*   t = "object"    a JSON object, or a non-zero number, true, a string   *)
(*   t = "array"     a JSON array of the elements in items                 *)
(***************************************************************************)
Absent == [t |-> "absent", items |-> << >>]
Garbage == [t |-> "garbage", items |-> << >>]
Falsy == [t |-> "falsy", items |-> << >>]
NonArray == [t |-> "object", items |-> << >>]
ArrayText(items) == [t |-> "array", items |-> items]

\* JSON.stringify of a number: NaN and +-Infinity are written as null.
NumberToJSON(x) == IF x.c \in {"nan", "inf"} THEN Null ELSE x

\* JSON.stringify of one workout: the Date becomes its ISO string, numbers go
\* through NumberToJSON, absent properties stay absent.
WorkoutToJSON(w) ==
  [ w EXCEPT !.date = [iso |-> TRUE, t |-> w.date.t],
             !.distance = NumberToJSON(w.distance),
             !.duration = NumberToJSON(w.duration),
             !.cadence = NumberToJSON(w.cadence),
             !.elevation = NumberToJSON(w.elevation),
             !.pace = NumberToJSON(w.pace),
             !.speed = NumberToJSON(w.speed) ]

\* JSON.stringify(this.#workouts)
Stringify(ws) == ArrayText([i \in DOMAIN ws |-> WorkoutToJSON(ws[i])])

(***************************************************************************)
(* Rendering.                                                              *)
(***************************************************************************)
\* _renderWorkout throws: workout.type on null, or workout.pace.toFixed on a
\* pace that is null or undefined.
RenderThrows(w) ==
  \/ w.type = "null"
  \/ w.type = "running" /\ w.pace.c \in {"null", "undef"}

\* The <li> _renderWorkout builds.
ListItem(w) ==
  [ id |-> w.id, type |-> w.type, title |-> w.description,
    distance |-> w.distance, duration |-> w.duration,
    rate |-> IF w.type = "running" THEN toFixed1(w.pace) ELSE w.speed,
    metric |-> IF w.type = "running" THEN w.cadence ELSE w.elevation ]

\* _renderWorkoutMarker throws: workout.coords on null.
MarkerThrows(w) == w.type = "null"

\* The marker and popup _renderWorkoutMarker adds to the map.
Marker(w) ==
  [ coords |-> w.coords, className |-> w.type, content |-> w.description ]

\* Index of the first TRUE in a sequence of "this call throws" flags,
\* Len(throws) + 1 if there is none.
FirstThrow(throws) ==
  IF \E i \in DOMAIN throws : throws[i]
  THEN CHOOSE i \in DOMAIN throws : throws[i] /\ \A j \in 1..(i - 1) : ~throws[j]
  ELSE Len(throws) + 1

Reverse(s) == [i \in 1..Len(s) |-> s[Len(s) + 1 - i]]

\* this.#workouts.forEach(w => this._renderWorkout(w)): each item is inserted
\* right after the form, so the list reads newest first; the loop stops at the
\* first element that throws.
RenderAll(ws) ==
  LET k == FirstThrow([i \in DOMAIN ws |-> RenderThrows(ws[i])]) - 1
  IN Reverse([i \in 1..k |-> ListItem(ws[i])])

\* (mutant) _loadMap places no marker for the workouts already in the store.
MarkNone(ws) == << >>

\* this.#workouts.forEach(work => this._renderWorkoutMarker(work))
MarkAll(ws) ==
  LET k == FirstThrow([i \in DOMAIN ws |-> MarkerThrows(ws[i])]) - 1
  IN [i \in 1..k |-> Marker(ws[i])]

(***************************************************************************)
(* State.                                                                  *)
(***************************************************************************)
VARIABLES
  localStorage,     \* the value under the key 'workouts'
  workouts,         \* App.#workouts, when it is an array
  workoutsIsArray,  \* FALSE when #workouts was set to a value that is no array
  map,              \* App.#map: NoMap, or the view [center, zoom]
  mapEvent,         \* App.#mapEvent: NoCoords, or the latlng of the last map click
  markers,          \* the markers on the map, in the order they were added
  list,             \* the <li> items after the form, in document order
  formHidden,       \* the form has class 'hidden'
  formDisplay,      \* form.style.display: "", "none" or "grid"
  inputType,        \* value of the kind selector
  cadenceRowHidden, \* the cadence row has class 'form__row--hidden'
  elevationRowHidden,
  inputDistance, inputDuration, inputCadence, inputElevation,
  geoSupported,     \* navigator.geolocation is there
  geo,              \* the position request: "none", "pending", "success", "error"
  listening,        \* the constructor got to register the DOM listeners
  positionAlerted,  \* alert('Could not get your position.') ran since the page loaded
  last              \* the event that happened last: [op, threw, alert, had]

vars == << localStorage, workouts, workoutsIsArray, map, mapEvent, markers, list,
           formHidden, formDisplay, inputType, cadenceRowHidden,
           elevationRowHidden, inputDistance, inputDuration, inputCadence,
           inputElevation, geoSupported, geo, listening, positionAlerted, last >>

fields == << inputDistance, inputDuration, inputCadence, inputElevation >>
rows == << inputType, cadenceRowHidden, elevationRowHidden >>

NoMap == [center |-> NoCoords, zoom |-> 0]
mapZoomLevel == 13

PositionMessage == "Could not get your position."
InputsMessage == "Inputs have to be positive numbers!"
NoMessage == ""

\* The record of an event: the handler op ran, it raised an uncaught error or
\* not, alert() showed this message, and #workouts held `had` entries before;
\* item is the list position a list click landed on (0 for every other event).
Ran(op, threw, alert) ==
  [op |-> op, threw |-> threw, alert |-> alert, had |-> Len(workouts), item |-> 0]
FirstRun(op, threw, alert) ==
  [op |-> op, threw |-> threw, alert |-> alert, had |-> 0, item |-> 0]

(***************************************************************************)
(* Page load: the script runs `new App()`.                                 *)
(***************************************************************************)
\* _getPosition shows the message: `this._alertMessage()` is a call, made while
\* the arguments of getCurrentPosition are evaluated.
GetPositionAlerts(supported) == supported

\* The error callback handed to getCurrentPosition is the value that call
\* returned, undefined: nothing runs when the request fails.
ErrorCallbackAlerts == FALSE

\* JSON.parse(localStorage.getItem('workouts')) throws.
ParseThrows(ls) == ls.t = "garbage"

\* _getLocalStorage throws: in JSON.parse, in forEach on a truthy value that is
\* no array, or in _renderWorkout.
GetLocalStorageThrows(ls) ==
  \/ ParseThrows(ls)
  \/ ls.t = "object"
  \/ ls.t = "array" /\ \E i \in DOMAIN ls.items : RenderThrows(ls.items[i])

\* (mutant) the restore runs the factory again: pace and speed are recomputed.
RestoredRecomputed(ls) ==
  IF ls.t = "array"
  THEN [i \in DOMAIN ls.items |->
         IF ls.items[i].type = "running"
         THEN [ls.items[i] EXCEPT !.pace = calculatePace(ls.items[i].distance, ls.items[i].duration)]
         ELSE IF ls.items[i].type = "cycling"
         THEN [ls.items[i] EXCEPT !.speed = calculateSpeed(ls.items[i].distance, ls.items[i].duration)]
         ELSE ls.items[i]]
  ELSE << >>

\* #workouts after _getLocalStorage: `if (!data) return;` keeps the empty array
\* for null and the other falsy values, and JSON.parse gives plain objects with
\* the values the text holds.
RestoredWorkouts(ls) == IF ls.t = "array" THEN ls.items ELSE << >>

\* The list after _getLocalStorage.
RestoredList(ls) == IF ls.t = "array" THEN RenderAll(ls.items) ELSE << >>

\* The page as index.html gives it: form hidden, kind 'running', the cadence
\* row shown and the elevation row hidden, all fields empty.
FormInitiallyHidden == TRUE
InitialType == "running"
InitialCadenceRowHidden == FALSE
InitialElevationRowHidden == TRUE

\* The state `new App()` leaves, given the stored value and whether the
\* browser has geolocation; op names what caused the page load.
Loaded(ls, supported) ==
  [ workouts |-> RestoredWorkouts(ls),
    workoutsIsArray |-> ls.t # "object",
    list |-> RestoredList(ls),
    geo |-> IF supported THEN "pending" ELSE "none",
    listening |-> ~GetLocalStorageThrows(ls),
    positionAlerted |-> GetPositionAlerts(supported),
    threw |-> GetLocalStorageThrows(ls),
    alert |-> IF GetPositionAlerts(supported) THEN PositionMessage ELSE NoMessage ]

InitWith(storage) ==
  \E ls \in storage, supported \in BOOLEAN :
    LET app == Loaded(ls, supported) IN
    /\ localStorage = ls
    /\ workouts = app.workouts
    /\ workoutsIsArray = app.workoutsIsArray
    /\ map = NoMap
    /\ mapEvent = NoCoords
    /\ markers = << >>
    /\ list = app.list
    /\ formHidden = FormInitiallyHidden
    /\ formDisplay = ""
    /\ inputType = InitialType
    /\ cadenceRowHidden = InitialCadenceRowHidden
    /\ elevationRowHidden = InitialElevationRowHidden
    /\ inputDistance = "" /\ inputDuration = ""
    /\ inputCadence = "" /\ inputElevation = ""
    /\ geoSupported = supported
    /\ geo = app.geo
    /\ listening = app.listening
    /\ positionAlerted = app.positionAlerted
    /\ last = FirstRun("load", app.threw, app.alert)

\* A later page load, caused by op: a fresh document and a fresh App over the
\* stored value ls.
PageLoad(ls, op) ==
  LET app == Loaded(ls, geoSupported) IN
  /\ workouts' = app.workouts
  /\ workoutsIsArray' = app.workoutsIsArray
  /\ map' = NoMap
  /\ mapEvent' = NoCoords
  /\ markers' = << >>
  /\ list' = app.list
  /\ formHidden' = FormInitiallyHidden
  /\ formDisplay' = ""
  /\ inputType' = InitialType
  /\ cadenceRowHidden' = InitialCadenceRowHidden
  /\ elevationRowHidden' = InitialElevationRowHidden
  /\ inputDistance' = "" /\ inputDuration' = ""
  /\ inputCadence' = "" /\ inputElevation' = ""
  /\ geo' = app.geo
  /\ listening' = app.listening
  /\ positionAlerted' = app.positionAlerted
  /\ last' = Ran(op, app.threw, app.alert)
  /\ UNCHANGED geoSupported

(***************************************************************************)
(* Handlers and events.                                                    *)
(***************************************************************************)
\* _loadMap throws: forEach on a #workouts that is no array, or a marker for a
\* null element.
LoadMapThrows ==
  ~workoutsIsArray \/ \E i \in DOMAIN workouts : MarkerThrows(workouts[i])

\* Geolocation succeeds: _loadMap(position).  The map is created and its click
\* handler registered before the markers of the workouts are placed.
LoadMap(position) ==
  /\ geo = "pending"
  /\ geo' = "success"
  /\ map' = [center |-> position, zoom |-> mapZoomLevel]
  /\ markers' = IF workoutsIsArray THEN markers \o MarkAll(workouts) ELSE markers
  /\ last' = Ran("loadMap", LoadMapThrows, NoMessage)
  /\ UNCHANGED << localStorage, workouts, workoutsIsArray, mapEvent, list,
                  formHidden, formDisplay, rows, fields, geoSupported, listening,
                  positionAlerted >>

\* Geolocation fails (denied, unavailable, timed out): the error callback.
PositionError ==
  /\ geo = "pending"
  /\ geo' = "error"
  /\ positionAlerted' = (positionAlerted \/ ErrorCallbackAlerts)
  /\ last' = Ran("positionError", FALSE,
                 IF ErrorCallbackAlerts THEN PositionMessage ELSE NoMessage)
  /\ UNCHANGED << localStorage, workouts, workoutsIsArray, map, mapEvent, markers,
                  list, formHidden, formDisplay, rows, fields, geoSupported,
                  listening >>

\* (mutant) the click handler is there whether or not the map is.
MapClickableWithoutMap == TRUE

\* The map's click handler exists once _loadMap has registered it.
MapClickable == map # NoMap

\* A click on the map at latlng: _showForm(mapEv).
ShowForm(latlng) ==
  /\ MapClickable
  /\ mapEvent' = latlng
  /\ formHidden' = FALSE
  /\ last' = Ran("showForm", FALSE, NoMessage)
  /\ UNCHANGED << localStorage, workouts, workoutsIsArray, map, markers, list,
                  formDisplay, rows, fields, geoSupported, geo, listening,
                  positionAlerted >>

\* The user types into the four text fields (no handler of the App runs).
FillForm(f) ==
  /\ << f.distance, f.duration, f.cadence, f.elevation >> # fields
  /\ inputDistance' = f.distance
  /\ inputDuration' = f.duration
  /\ inputCadence' = f.cadence
  /\ inputElevation' = f.elevation
  /\ last' = Ran("fillForm", FALSE, NoMessage)
  /\ UNCHANGED << localStorage, workouts, workoutsIsArray, map, mapEvent, markers,
                  list, formHidden, formDisplay, rows, geoSupported, geo,
                  listening, positionAlerted >>

\* The user picks the other kind; the 'change' listener, when registered, runs
\* _toggleElevationField, which flips the class on both rows.
ToggleElevationField ==
  /\ inputType' = IF inputType = "running" THEN "cycling" ELSE "running"
  /\ elevationRowHidden' = IF listening THEN ~elevationRowHidden ELSE elevationRowHidden
  /\ cadenceRowHidden' = IF listening THEN ~cadenceRowHidden ELSE cadenceRowHidden
  /\ last' = Ran("toggleElevationField", FALSE, NoMessage)
  /\ UNCHANGED << localStorage, workouts, workoutsIsArray, map, mapEvent, markers,
                  list, formHidden, formDisplay, fields, geoSupported, geo,
                  listening, positionAlerted >>

\* The checks of _newWorkout, per kind.
RunningValid(distance, duration, cadence) ==
  /\ validInputs(<< distance, duration, cadence >>)
  /\ allPositive(<< distance, duration, cadence >>)
CyclingValid(distance, duration, elevation) ==
  /\ validInputs(<< distance, duration, elevation >>)
  /\ allPositive(<< distance, duration >>)

\* The form as it stands passes the check of the selected kind.
InputsValid ==
  IF inputType = "running"
  THEN RunningValid(ToNumber(inputDistance), ToNumber(inputDuration),
                    ToNumber(inputCadence))
  ELSE CyclingValid(ToNumber(inputDistance), ToNumber(inputDuration),
                    ToNumber(inputElevation))

\* (mutant) the workout is placed at the centre of the map view.
FormWorkoutAtMapCenter(t) ==
  IF inputType = "running"
  THEN NewRunning(map.center, ToNumber(inputDistance), ToNumber(inputDuration),
                  ToNumber(inputCadence), t)
  ELSE NewCycling(map.center, ToNumber(inputDistance), ToNumber(inputDuration),
                  ToNumber(inputElevation), t)

\* The workout _newWorkout constructs from the form and the last map click,
\* when Date.now() is t.
FormWorkout(t) ==
  IF inputType = "running"
  THEN NewRunning(mapEvent, ToNumber(inputDistance), ToNumber(inputDuration),
                  ToNumber(inputCadence), t)
  ELSE NewCycling(mapEvent, ToNumber(inputDistance), ToNumber(inputDuration),
                  ToNumber(inputElevation), t)

\* `this.#mapEvent.latlng` throws: no map click has set #mapEvent.
NewWorkoutThrows == mapEvent = NoCoords

\* (mutant) the rejection also runs _hideForm.
RejectedHidingForm ==
  /\ last' = Ran("newWorkout", FALSE, InputsMessage)
  /\ inputDistance' = "" /\ inputDuration' = ""
  /\ inputCadence' = "" /\ inputElevation' = ""
  /\ formDisplay' = "none"
  /\ formHidden' = TRUE
  /\ UNCHANGED << localStorage, workouts, markers, list >>

\* `return alert('Inputs have to be positive numbers!')`: the handler ends
\* before anything is written.
Rejected ==
  /\ last' = Ran("newWorkout", FALSE, InputsMessage)
  /\ UNCHANGED << localStorage, workouts, markers, list, formHidden, formDisplay,
                  fields >>

\* (mutant) unshift in place of push.
Unshift(ws, w) == << w >> \o ws

\* this.#workouts.push(workout)
Push(ws, w) == Append(ws, w)

\* (mutant) only the newest workout is written.
SavedNewestOnly(ws) == Stringify(<< ws[Len(ws)] >>)

\* _setLocalStorage: the value written under 'workouts'.
Saved(ws) == Stringify(ws)

\* The clock never runs behind the date of a stored workout.
ClockAt(t) == \A i \in DOMAIN workouts : workouts[i].date.t <= t

\* The form's 'submit' event at time t: _newWorkout(e), with the
\* _renderWorkoutMarker, _renderWorkout, _hideForm and _setLocalStorage calls
\* it ends with.
NewWorkout(t) ==
  /\ listening
  /\ Len(workouts) < MaxWorkouts
  /\ ClockAt(t)
  /\ IF NewWorkoutThrows
     THEN /\ last' = Ran("newWorkout", TRUE, NoMessage)
          /\ UNCHANGED << localStorage, workouts, markers, list, formHidden,
                          formDisplay, fields >>
     ELSE IF ~InputsValid
     THEN Rejected
     ELSE /\ workouts' = Push(workouts, FormWorkout(t))
          /\ markers' = Append(markers, Marker(FormWorkout(t)))
          /\ list' = << ListItem(FormWorkout(t)) >> \o list
          /\ inputDistance' = "" /\ inputDuration' = ""
          /\ inputCadence' = "" /\ inputElevation' = ""
          /\ formDisplay' = "none"
          /\ formHidden' = TRUE
          /\ localStorage' = Saved(workouts')
          /\ last' = Ran("newWorkout", FALSE, NoMessage)
  /\ UNCHANGED << workoutsIsArray, map, mapEvent, rows, geoSupported, geo,
                  listening, positionAlerted >>

\* The timer _hideForm sets: form.style.display = 'grid' a second later.
HideFormTimer ==
  /\ formDisplay = "none"
  /\ formDisplay' = "grid"
  /\ last' = Ran("timer", FALSE, NoMessage)
  /\ UNCHANGED << localStorage, workouts, workoutsIsArray, map, mapEvent, markers,
                  list, formHidden, rows, fields, geoSupported, geo, listening,
                  positionAlerted >>

\* this.#workouts.find(w => w.id === id): the first match, 0 when none.
FindById(ws, id) ==
  IF \E i \in DOMAIN ws : ws[i].id = id
  THEN CHOOSE i \in DOMAIN ws : ws[i].id = id /\ \A j \in 1..(i - 1) : ws[j].id # id
  ELSE 0

\* `this.#map.setView(workout.coords, ...)` throws: no map, or no workout found.
MoveToPopupThrows(item) == map = NoMap \/ FindById(workouts, list[item].id) = 0

\* A click inside the list container: _moveToPopup(e).  item is the position
\* of the <li> the click landed in, 0 when it landed in none.
MoveToPopup(item) ==
  /\ listening
  /\ IF item = 0
     THEN /\ last' = Ran("moveToPopup", FALSE, NoMessage)
          /\ UNCHANGED map
     ELSE IF MoveToPopupThrows(item)
     THEN /\ last' = [Ran("moveToPopup", TRUE, NoMessage) EXCEPT !.item = item]
          /\ UNCHANGED map
     ELSE /\ map' = [center |-> workouts[FindById(workouts, list[item].id)].coords,
                     zoom |-> mapZoomLevel]
          /\ last' = [Ran("moveToPopup", FALSE, NoMessage) EXCEPT !.item = item]
  /\ UNCHANGED << localStorage, workouts, workoutsIsArray, mapEvent, markers, list,
                  formHidden, formDisplay, rows, fields, geoSupported, geo,
                  listening, positionAlerted >>

\* app.reset(): removeItem('workouts'), then location.reload().  `app` is
\* bound only when the constructor returned.
\* (mutant) reset() reloads without removing the key.
AfterNoRemoveItem == localStorage

\* localStorage.removeItem('workouts'): the key is gone.
AfterRemoveItem == Absent
Reset ==
  /\ listening
  /\ localStorage' = AfterRemoveItem
  /\ PageLoad(AfterRemoveItem, "reset")

\* The user reloads the page.
Reload ==
  /\ localStorage' = localStorage
  /\ PageLoad(localStorage, "reload")

(***************************************************************************)
(* Specifications.                                                         *)
(***************************************************************************)
Filling(distance, duration, cadence, elevation) ==
  [distance |-> distance, duration |-> duration, cadence |-> cadence,
   elevation |-> elevation]

\* What the user types in Spec: a form valid for both kinds (for cycling, with
\* a negative elevation), and one valid for running only, whose pace overflows
\* (for cycling its elevation is no number).  The empty form a page load or an
\* accepted submission leaves is valid for neither kind.
Fillings ==
  { Filling("1", "1", "1", "-1"),
    Filling("5e-324", "1", "1", "abc") }

Times == 0..MaxNow

NextWith(locations, times, fillings) ==
  \/ \E position \in locations : LoadMap(position)
  \/ PositionError
  \/ \E latlng \in locations : ShowForm(latlng)
  \/ \E f \in fillings : FillForm(f)
  \/ ToggleElevationField
  \/ \E t \in times : NewWorkout(t)
  \/ HideFormTimer
  \/ \E item \in 0..Len(list) : MoveToPopup(item)
  \/ Reset
  \/ Reload

\* The first visit: nothing is stored, and the App is the only writer of the key.
Init == InitWith({Absent})
Next == NextWith(Locations, Times, Fillings)
Spec == Init /\ [][Next]_vars

\* A visit that finds the key as something else left it: absent, not JSON, a
\* falsy JSON value, a JSON object, an array with a null element.
InitCorrupt == InitWith({Absent, Garbage, Falsy, NonArray, ArrayText(<< NullEntry >>)})
NextCorrupt == NextWith(Locations, {0}, {Filling("1", "1", "1", "")})
SpecCorrupt == InitCorrupt /\ [][NextCorrupt]_vars

(***************************************************************************)
(* Properties.                                                             *)
(***************************************************************************)
PageLoads == {"load", "reload", "reset"}

IsPrefix(s, t) == Len(s) <= Len(t) /\ \A i \in DOMAIN s : s[i] = t[i]

\* C1: load never raises: when the page loads and the 'workouts' key is absent
\* or holds a malformed value (not JSON, or JSON that is not an array of
\* entries), the constructor completes without an uncaught error and the store
\* is the empty sequence.
Malformed(ls) ==
  \/ ls.t \in {"garbage", "falsy", "object"}
  \/ ls.t = "array" /\ \E i \in DOMAIN ls.items : ls.items[i].type = "null"
C1_LoadNeverRaises ==
  (last.op \in PageLoads /\ (localStorage = Absent \/ Malformed(localStorage)))
    => (~last.threw /\ listening /\ workoutsIsArray /\ workouts = << >>)

\* C2: save/load round trip: a reload restores a store of the same length and
\* order, each entry with the same id, kind, location, distance, duration,
\* cadence/elevation, description and pace/speed as the entry that was saved.
SameEntry(a, b) ==
  /\ a.id = b.id /\ a.type = b.type /\ a.coords = b.coords
  /\ a.distance = b.distance /\ a.duration = b.duration
  /\ a.cadence = b.cadence /\ a.elevation = b.elevation
  /\ a.description = b.description
  /\ a.pace = b.pace /\ a.speed = b.speed
C2_RoundTrip ==
  [][last'.op = "reload" =>
       /\ Len(workouts') = Len(workouts)
       /\ \A i \in DOMAIN workouts : SameEntry(workouts[i], workouts'[i])]_vars

\* C3: validation decides acceptance exactly: a form submission appends an
\* entry if and only if the numbers in the form pass the check of the selected
\* kind (all finite, distance and duration positive, cadence positive for
\* running; any finite elevation for cycling).
C3_ValidationDecides ==
  [][last'.op = "newWorkout" =>
       ((Len(workouts') = Len(workouts) + 1) <=> InputsValid)]_vars

\* C4: a rejected submission changes nothing: when _newWorkout reaches its
\* check and the check fails, the blocking message is shown and the store, the
\* stored value, the list, the markers, the form's visibility and the typed
\* field values are as they were.
C4_RejectionChangesNothing ==
  [][(last'.op = "newWorkout" /\ ~NewWorkoutThrows /\ ~InputsValid) =>
       /\ last'.alert = InputsMessage
       /\ ~last'.threw
       /\ UNCHANGED << workouts, localStorage, list, markers, formHidden,
                       formDisplay, fields >>]_vars
C4_Witness ==
  /\ last.op = "newWorkout" /\ last.alert = InputsMessage
  /\ ~formHidden /\ inputDistance # "" /\ inputElevation # ""
  /\ workouts # << >>

\* C5: no logging without a map: when geolocation is unsupported or fails the
\* map never becomes ready; and while there is no map the form is never
\* visible, no event appends an entry to the store, and nothing is written
\* under the key (reset may remove it).
C5_NoLoggingWithoutMap ==
  /\ [](geo \in {"none", "error"} => map = NoMap)
  /\ [](map = NoMap => formHidden)
  /\ [][map = NoMap =>
          /\ last'.op \in {"reload", "reset"} \/ workouts' = workouts
          /\ Len(workouts') <= Len(workouts)
          /\ localStorage' = localStorage \/ localStorage' = Absent]_vars
C5_Witness ==
  /\ geo = "error" /\ map = NoMap
  /\ last.op = "newWorkout" /\ InputsValid
  /\ workouts # << >>

\* C6: the 'Could not get your position.' message is the geolocation error
\* callback: the failure of the position request shows it, and it is not shown
\* in a session whose position request succeeds.
C6_MessageOnlyOnError ==
  /\ geo = "success" => ~positionAlerted
  /\ last.op = "positionError" => last.alert = PositionMessage

\* C7: no event handler crashes: no page load, geolocation callback, map click,
\* submission, kind change, list click or reset raises an uncaught error.
C7_NoHandlerThrows == ~last.threw

\* C8: the store is append-only within a session: every event other than a
\* page load leaves the earlier store as a prefix of the later one, and a
\* non-empty store becomes empty only through reset.
C8_AppendOnly ==
  [][/\ last'.op \notin {"reload", "reset"} => IsPrefix(workouts, workouts')
     /\ (workouts # << >> /\ workouts' = << >>) => last'.op = "reset"]_vars
C8_Witness ==
  /\ last.op = "newWorkout" /\ ~last.threw /\ last.alert = NoMessage
  /\ last.had = 1 /\ Len(workouts) = 2

\* C9: persisted state mirrors the store: the key is absent with the store
\* empty, or it holds the serialization of exactly the store's entries in
\* creation order.
C9_StorageMirrorsStore ==
  \/ localStorage = Absent /\ workouts = << >>
  \/ /\ localStorage.t = "array"
     /\ Len(localStorage.items) = Len(workouts)
     /\ \A i \in DOMAIN workouts : localStorage.items[i] = WorkoutToJSON(workouts[i])
C9_Witness ==
  /\ Len(workouts) = 2
  /\ workouts[1].date.iso /\ ~workouts[2].date.iso
  /\ localStorage.t = "array"

\* C10: reset clears history: after reset() and the reload it triggers the key
\* is absent, loading it gives nothing, the store is empty and no list item or
\* marker is rendered, whatever was logged before.
C10_ResetClears ==
  last.op = "reset" =>
    /\ localStorage = Absent
    /\ RestoredWorkouts(localStorage) = << >>
    /\ workoutsIsArray /\ workouts = << >>
    /\ list = << >> /\ markers = << >>
C10_Witness == last.op = "reset" /\ last.had = 2

\* C11: derived metrics are computed once, at construction, by the literal
\* formulas: the entry an accepted submission appends has pace = duration /
\* distance (running) or speed = distance / duration / 60 (cycling); no later
\* event of the session recomputes the pace or speed of an entry, and a page
\* load takes them as the stored value holds them, without recomputing them
\* from the restored distance and duration.
C11_ComputedOnce ==
  [][/\ (last'.op = "newWorkout" /\ Len(workouts') = Len(workouts) + 1) =>
          LET w == workouts'[Len(workouts')] IN
          /\ w.type = "running" => w.pace = Div(w.duration, w.distance)
          /\ w.type = "cycling" => w.speed = Div(Div(w.distance, w.duration), Fin(60, 1))
     /\ last'.op \notin PageLoads =>
          \A i \in DOMAIN workouts :
            workouts'[i].pace = workouts[i].pace /\ workouts'[i].speed = workouts[i].speed
     /\ last'.op = "reload" =>
          /\ Len(workouts') = Len(localStorage.items)
          /\ \A i \in DOMAIN workouts' :
               /\ workouts'[i].pace = localStorage.items[i].pace
               /\ workouts'[i].speed = localStorage.items[i].speed]_vars
\* A reload restored a running entry whose stored pace is null although the
\* quotient of its distance and duration is not.
C11_Witness ==
  /\ last.op = "reload" /\ workouts # << >>
  /\ workouts[1].type = "running" /\ workouts[1].pace = Null
  /\ calculatePace(workouts[1].distance, workouts[1].duration) = Infinity

\* C12: ids are unique within a session: any two distinct entries of the store,
\* restored or created in this session, have different ids.
C12_IdsUnique ==
  \A i, j \in DOMAIN workouts : i # j => workouts[i].id # workouts[j].id

\* C13: a successful submission does exactly one append: the store grows by
\* one entry at its end, of the kind selected in the form, with the submitted
\* distance, duration and kind-specific metric and the location of the most
\* recent map click; afterwards the form is hidden and the four fields are
\* empty.
C13_SuccessfulSubmission ==
  [][(last'.op = "newWorkout" /\ ~NewWorkoutThrows /\ InputsValid) =>
       LET w == workouts'[Len(workouts')] IN
       /\ ~last'.threw /\ last'.alert = NoMessage
       /\ Len(workouts') = Len(workouts) + 1
       /\ IsPrefix(workouts, workouts')
       /\ w.type = inputType
       /\ w.distance = ToNumber(inputDistance)
       /\ w.duration = ToNumber(inputDuration)
       /\ inputType = "running" => w.cadence = ToNumber(inputCadence)
       /\ inputType = "cycling" => w.elevation = ToNumber(inputElevation)
       /\ w.coords = mapEvent
       /\ formHidden'
       /\ inputDistance' = "" /\ inputDuration' = ""
       /\ inputCadence' = "" /\ inputElevation' = ""]_vars
\* A second, cycling entry was just appended at a click away from the centre
\* of the map view.
C13_Witness ==
  /\ last.op = "newWorkout" /\ ~last.threw /\ last.alert = NoMessage
  /\ last.had = 1 /\ Len(workouts) = 2
  /\ workouts[2].type = "cycling" /\ workouts[2].elevation = Fin(-1, 1)
  /\ workouts[2].coords # map.center
  /\ formHidden /\ fields = << "", "", "", "" >>

\* C14: markers track the store once the map exists: while there is no map
\* there is no marker, and once the map is ready there is exactly one marker
\* per entry of the store, in creation order, at that entry's location, for
\* the entries restored at startup and for those submitted later.
C14_MarkersTrackStore ==
  /\ map = NoMap => markers = << >>
  /\ map # NoMap =>
       /\ Len(markers) = Len(workouts)
       /\ \A i \in DOMAIN workouts : markers[i].coords = workouts[i].coords
\* The map is ready over a restored entry and one submitted after it, at
\* different places.
C14_Witness ==
  /\ map # NoMap /\ Len(workouts) = 2 /\ Len(markers) = 2
  /\ workouts[1].date.iso /\ ~workouts[2].date.iso
  /\ workouts[1].coords # workouts[2].coords

\* C15: the list tracks the store, with or without the map: the rendered list
\* has exactly one item per entry of the store, carrying that entry's id, also
\* for restored entries while the map does not exist.
C15_ListTracksStore ==
  /\ Len(list) = Len(workouts)
  /\ \A i \in DOMAIN workouts :
       Cardinality({k \in DOMAIN list : list[k].id = workouts[i].id})
         = Cardinality({j \in DOMAIN workouts : workouts[j].id = workouts[i].id})

\* C16: list order is stable across reloads: the displayed list is always the
\* store in reverse creation order (the newest entry right after the form),
\* and a reload displays the same items in the same order as before it.
ShownFor(ws) == Reverse([i \in DOMAIN ws |-> [id |-> ws[i].id, title |-> ws[i].description]])
Shown == [k \in DOMAIN list |-> [id |-> list[k].id, title |-> list[k].title]]
C16_ListOrderStable ==
  /\ [](Shown = ShownFor(workouts))
  /\ [][last'.op = "reload" => Shown' = Shown]_vars

\* C17: a list click resolves to the right entry: with the map ready, a click
\* on the list item rendered for an entry recentres the map on that entry's
\* own location without an error, and a click in the list container outside
\* every item leaves the map view as it was.  (The item at list position k is
\* the one rendered for the entry k-th from the end of the store.)
C17_ListClickResolves ==
  [][(last'.op = "moveToPopup" /\ map # NoMap) =>
       IF last'.item = 0
       THEN map' = map /\ ~last'.threw
       ELSE /\ ~last'.threw
            /\ map'.center = workouts[Len(workouts) + 1 - last'.item].coords
            /\ map'.zoom = mapZoomLevel]_vars

\* C18: kind-specific field set: exactly one of the cadence and elevation rows
\* is visible, and it is the row of the selected kind (cadence for running,
\* elevation for cycling), whose field _newWorkout reads.
C18_KindRowVisible ==
  /\ cadenceRowHidden # elevationRowHidden
  /\ inputType = "running" => ~cadenceRowHidden
  /\ inputType = "cycling" => ~elevationRowHidden

====
